---------------------------- MODULE Spec2Model ----------------------------
(***************************************************************************)
(* Model of the Scryfall deck export converters:                           *)
(*   scryfall_csv_to_txt.main          (tabular pipeline)                  *)
(*   scryfall_json_to_txt.scryfall_json_to_txt  (structured pipeline)      *)
(* and of their name normalizers.                                          *)
(*                                                                         *)
(* A Python str is a sequence of one-character strings.  The box of the    *)
(* land banner (six fixed lines) is carried as the single element BOX.     *)
(* Python indices are kept 0-based, as the code computes them.             *)
(***************************************************************************)
EXTENDS Integers, Sequences, FiniteSets, TLC

VARIABLES
    pipeline,       \* "csv" | "json": which entry point runs
    pc,             \* "start" | "loop" | "done" | "error" (an exception left the call)
    input,          \* the export as the exporter saw it (rows / document), kept for the properties
    csv_file,       \* csv: the lines readlines() returns
    dest_filename,  \* csv: main's dest_filename
    csv_column_names, cards, idx_count, idx_name,   \* csv: main's locals
    i,              \* both: position in the current cards list
    loc,            \* both: the loop body's locals after the last iteration
    new_lines,      \* csv: new_lines
    lands,          \* both: lands
    deck_list,      \* json: json.loads(f.read())
    include,        \* json: include
    out,            \* json: out
    sec,            \* json: position in deck_list["entries"].items()
    formatted_cards,        \* json: formatted_cards
    formatted_card_content, \* both
    land_printout,  \* json
    file,           \* the destination file's content, NoFile while never opened
    stdout,         \* what print() wrote
    quirk           \* normalizer runs: [name, once, twice]

vars == <<pipeline, pc, input, csv_file, dest_filename, csv_column_names, cards,
          idx_count, idx_name, i, loc, new_lines, lands, deck_list, include, out,
          sec, formatted_cards, formatted_card_content, land_printout, file,
          stdout, quirk>>

csvVars == <<csv_file, dest_filename, csv_column_names, cards, idx_count, idx_name,
             new_lines>>
jsonVars == <<deck_list, include, out, sec, formatted_cards, land_printout>>

----------------------------------------------------------------------------
(* Bounds *)

\* most card records in one export
MaxCards == 2
\* most characters after the first of a generated card name (desync runs)
MaxNameLen == 3
\* most pieces of a generated card name (normalizer runs)
MaxParts == 3

----------------------------------------------------------------------------
(* Strings *)

NL == "\n"
QUOTE == "\""
COMMA == ","
TAB == "\t"
NoFile == "no file"
None == "None"

Lower == <<"a","b","c","d","e","f","g","h","i","j","k","l","m",
           "n","o","p","q","r","s","t","u","v","w","x","y","z">>
UpperCase == <<"A","B","C","D","E","F","G","H","I","J","K","L","M",
               "N","O","P","Q","R","S","T","U","V","W","X","Y","Z">>

\* str.upper()
Upper(s) ==
    [k \in 1..Len(s) |->
        IF \E j \in 1..26 : Lower[j] = s[k]
        THEN UpperCase[CHOOSE j \in 1..26 : Lower[j] = s[k]]
        ELSE s[k]]

RECURSIVE Concat(_)
\* "".join(pieces)
Concat(pieces) ==
    IF pieces = <<>> THEN <<>> ELSE Head(pieces) \o Concat(Tail(pieces))

RECURSIVE Join(_, _)
\* sep.join(pieces)
Join(pieces, sep) ==
    IF pieces = <<>> THEN <<>>
    ELSE IF Len(pieces) = 1 THEN pieces[1]
    ELSE pieces[1] \o sep \o Join(Tail(pieces), sep)

RECURSIVE Split(_, _)
\* s.split(sep) for a one-character sep: always at least one field
Split(s, sep) ==
    IF \A k \in 1..Len(s) : s[k] # sep THEN <<s>>
    ELSE LET p == CHOOSE k \in 1..Len(s) : s[k] = sep /\ \A j \in 1..(k-1) : s[j] # sep
         IN  <<SubSeq(s, 1, p - 1)>> \o Split(SubSeq(s, p + 1, Len(s)), sep)

\* s.startswith(c), s.endswith(c) for a one-character c
StartsWith(s, c) == Len(s) > 0 /\ s[1] = c
EndsWith(s, c) == Len(s) > 0 /\ s[Len(s)] = c

RECURSIVE StripChar(_, _)
\* s.strip(c): every leading and trailing c
StripChar(s, c) ==
    IF StartsWith(s, c) THEN StripChar(Tail(s), c)
    ELSE IF EndsWith(s, c) THEN StripChar(SubSeq(s, 1, Len(s) - 1), c)
    ELSE s

RECURSIVE RemoveChar(_, _)
\* s.replace(c, "")
RemoveChar(s, c) ==
    IF s = <<>> THEN <<>>
    ELSE IF Head(s) = c THEN RemoveChar(Tail(s), c)
    ELSE <<Head(s)>> \o RemoveChar(Tail(s), c)

\* whether sub occurs in s at 1-based position p
MatchAt(s, p, sub) ==
    /\ p + Len(sub) - 1 <= Len(s)
    /\ \A k \in 1..Len(sub) : s[p + k - 1] = sub[k]

\* list.index(x), 0-based; -1 stands for ValueError
IndexOf(list, x) ==
    IF \E k \in 1..Len(list) : list[k] = x
    THEN (CHOOSE k \in 1..Len(list) : list[k] = x /\ \A j \in 1..(k-1) : list[j] # x) - 1
    ELSE -1

\* list[k] with Python's indices: 0-based, negative ones count from the end
InRange(list, k) == -Len(list) <= k /\ k < Len(list)
At(list, k) == IF k >= 0 THEN list[k + 1] ELSE list[Len(list) + k + 1]

RECURSIVE Digits(_)
\* "%d" % n for n >= 0
Digits(n) ==
    LET d == <<"0","1","2","3","4","5","6","7","8","9">>
    IN  IF n < 10 THEN <<d[n + 1]>> ELSE Digits(n \div 10) \o <<d[(n % 10) + 1]>>

\* all sequences over S of length 0..n
SeqsUpTo(S, n) == UNION {[1..k -> S] : k \in 0..n}

----------------------------------------------------------------------------
(* Literals of the source *)

sToken == <<"T","o","k","e","n">>
sSpaceToken == <<" ">> \o sToken
sCount == <<"c","o","u","n","t">>
sName == <<"n","a","m","e">>
sSetCode == <<"s","e","t","_","c","o","d","e">>
sCollectorNumber == <<"c","o","l","l","e","c","t","o","r","_","n","u","m","b","e","r">>
sLang == <<"l","a","n","g">>

sPlains == <<"P","l","a","i","n","s">>
sMountain == <<"M","o","u","n","t","a","i","n">>
sForest == <<"F","o","r","e","s","t">>
sIsland == <<"I","s","l","a","n","d">>
sSwamp == <<"S","w","a","m","p">>

\* the list with one land forgotten
BasicLandsWithoutForest == {sPlains, sMountain, sIsland, sSwamp}

\* the list both pipelines test the name against
BasicLands == {sPlains, sMountain, sForest, sIsland, sSwamp}

BOX == "-----| NOTE: Basic lands are not supported by TCGPlayer's mass entry. ... |-----"
\* the triple-quoted literal: blank line, the box, blank line
Banner == <<NL, NL, BOX, NL, NL>>

----------------------------------------------------------------------------
(* Name normalizers *)

\* regex \s
IsSpace(c) == c \in {" ", TAB, NL}

\* r"\s//\s" at p
TwoFacedAt(s, p) ==
    /\ p + 3 <= Len(s)
    /\ IsSpace(s[p]) /\ s[p + 1] = "/" /\ s[p + 2] = "/" /\ IsSpace(s[p + 3])

RECURSIVE DotStarEnd(_, _)
\* where a greedy .* starting at p stops: the first position not consumed
DotStarEnd(s, p) ==
    IF p > Len(s) \/ s[p] = NL THEN p ELSE DotStarEnd(s, p + 1)

\* csv: "\sToken$" at p; $ matches at the end and before a final newline
CsvTokenAt(s, p) ==
    /\ p <= Len(s) /\ IsSpace(s[p]) /\ MatchAt(s, p + 1, sToken)
    /\ \/ p + 5 = Len(s)
       \/ p + 6 = Len(s) /\ s[Len(s)] = NL

\* json: " Token" at p, anchored nowhere
JsonTokenAt(s, p) == MatchAt(s, p, sSpaceToken)

RECURSIVE CsvSub(_, _)
\* re.sub("(\s//\s.*|\sToken$)", "", s) from position p on
CsvSub(s, p) ==
    IF p > Len(s) THEN <<>>
    ELSE IF TwoFacedAt(s, p) THEN CsvSub(s, DotStarEnd(s, p + 4))
    ELSE IF CsvTokenAt(s, p) THEN CsvSub(s, p + 6)
    ELSE <<s[p]>> \o CsvSub(s, p + 1)

RECURSIVE JsonSub(_, _)
\* re.sub("(\s//\s.*| Token)", "", s) from position p on
JsonSub(s, p) ==
    IF p > Len(s) THEN <<>>
    ELSE IF TwoFacedAt(s, p) THEN JsonSub(s, DotStarEnd(s, p + 4))
    ELSE IF JsonTokenAt(s, p) THEN JsonSub(s, p + 6)
    ELSE <<s[p]>> \o JsonSub(s, p + 1)

fix_other_name_formatting_quirks(name) == CsvSub(name, 1)

fix_name_formatting_quirks(name) == JsonSub(name, 1)

----------------------------------------------------------------------------
(* The export a deck comes from: what the exporter writes for a table *)

\* the four columns main looks up by name
RequiredColumns == {sCount, sName, sSetCode, sCollectorNumber}

\* every order of the columns in S
Orders(S) == {h \in [1..Cardinality(S) -> S] : \A a, b \in 1..Len(h) : a # b => h[a] # h[b]}

\* a row's value in a column other than name (a fixed value per column, all distinct)
ColValue(col) ==
    IF col = sCount THEN <<"2">>
    ELSE IF col = sSetCode THEN <<"n","e","o">>
    ELSE IF col = sCollectorNumber THEN <<"7">>
    ELSE <<"e","n">>

RECURSIVE DoubleQuotes(_)
\* a quoted value writes each quote character twice
DoubleQuotes(v) ==
    IF v = <<>> THEN <<>>
    ELSE IF Head(v) = QUOTE THEN <<QUOTE, QUOTE>> \o DoubleQuotes(Tail(v))
    ELSE <<Head(v)>> \o DoubleQuotes(Tail(v))

\* "CSV exporters will wrap a value that has a comma in it in quotation marks"
CsvQuote(v) ==
    IF \E k \in 1..Len(v) : v[k] \in {COMMA, QUOTE}
    THEN <<QUOTE>> \o DoubleQuotes(v) \o <<QUOTE>>
    ELSE v

\* one cell of a row; a row with defect "unclosed" lost its name's closing quote
ExportCell(col, row) ==
    IF col # sName THEN ColValue(col)
    ELSE IF row.defect = "unclosed" THEN <<QUOTE>> \o row.name
    ELSE CsvQuote(row.name)

\* one line of the file; a row with defect "short" was cut after its first cell
ExportRow(header, row) ==
    LET cells == [k \in 1..Len(header) |-> ExportCell(header[k], row)]
    IN  (IF row.defect = "short" THEN cells[1] ELSE Join(cells, <<COMMA>>)) \o <<NL>>

\* csv_file.readlines() of the exported table: header line, then one line per row
ExportTable(t) ==
    <<Join(t.header, <<COMMA>>) \o <<NL>>>>
        \o [k \in 1..Len(t.rows) |-> ExportRow(t.header, t.rows[k])]

----------------------------------------------------------------------------
(* Tabular pipeline: scryfall_csv_to_txt *)

RECURSIVE ClosingOffset(_, _, _)
\* the while loop of normalize_name: the first offset >= off whose cell ends
\* with a quote; -1 when card[idx + offset] runs off the row (IndexError)
ClosingOffset(card, idx, off) ==
    IF ~InRange(card, idx + off) THEN -1
    ELSE IF EndsWith(At(card, idx + off), QUOTE) THEN off
    ELSE ClosingOffset(card, idx, off + 1)

\* normalize_name(idx_name, card, expected_num_columns) -> (name, name_offset)
normalize_name(idx, card, expected_num_columns) ==
    IF ~InRange(card, idx)
    THEN [err |-> "IndexError", name |-> <<>>, name_offset |-> 0]
    ELSE LET name == At(card, idx) IN
         IF StartsWith(name, QUOTE) /\ Len(card) > expected_num_columns
         THEN LET off == ClosingOffset(card, idx, 0) IN
              IF off = -1
              THEN [err |-> "IndexError", name |-> <<>>, name_offset |-> 0]
              ELSE [err |-> None,
                    name |-> StripChar(Join(SubSeq(card, idx + 1, idx + 1 + off), <<COMMA>>), QUOTE),
                    name_offset |-> off]
         ELSE [err |-> None, name |-> name, name_offset |-> 0]

\* f"{name} ({num}) - {card[idx_code - 1]} ({set_code.upper()})"
CsvLandLine(name, num, label, set_code) ==
    name \o <<" ", "(">> \o num \o <<")", " ", "-", " ">> \o label
         \o <<" ", "(">> \o Upper(set_code) \o <<")">>

\* f"{count} {name} [{set_code.upper()}] {num}"
CsvEntryLine(count, name, set_code, num) ==
    count \o <<" ">> \o name \o <<" ", "[">> \o Upper(set_code) \o <<"]", " ">> \o num

\* the body of "for card in cards" for one card: the locals it ends with, or the
\* exception that leaves it
CsvBody(card) ==
    LET nn == normalize_name(idx_name, card, Len(csv_column_names))
        name == fix_other_name_formatting_quirks(nn.name)
        code0 == IndexOf(csv_column_names, sSetCode)
        num0 == IndexOf(csv_column_names, sCollectorNumber)
        idx_code == code0 + nn.name_offset
        idx_num == num0 + nn.name_offset
        bad == [err |-> "IndexError", count |-> <<>>, name |-> <<>>, name_offset |-> 0,
                set_code |-> <<>>, num |-> <<>>, label |-> <<>>]
    IN  IF ~InRange(card, idx_count) THEN bad
        ELSE IF nn.err # None THEN bad
        ELSE IF code0 = -1 \/ num0 = -1 THEN [bad EXCEPT !.err = "ValueError"]
        ELSE IF ~InRange(card, idx_code) \/ ~InRange(card, idx_num) THEN bad
        ELSE [err |-> None, count |-> At(card, idx_count), name |-> name,
              name_offset |-> nn.name_offset, set_code |-> At(card, idx_code),
              num |-> At(card, idx_num), label |-> At(card, idx_code - 1)]

NoLocals == [err |-> None]

\* lines 81-90: read the lines, split them, look up count and name
CsvStart ==
    /\ pipeline = "csv" /\ pc = "start"
    /\ LET lines == [k \in 1..Len(csv_file) |-> Split(csv_file[k], COMMA)]
           names == IF lines = <<>> THEN <<>> ELSE lines[1]
       IN  /\ csv_column_names' = names
           /\ cards' = IF lines = <<>> THEN <<>> ELSE Tail(lines)
           /\ idx_count' = IndexOf(names, sCount)
           /\ idx_name' = IndexOf(names, sName)
           /\ pc' = IF lines = <<>> \/ IndexOf(names, sCount) = -1 \/ IndexOf(names, sName) = -1
                    THEN "error" ELSE "loop"
    /\ new_lines' = <<>> /\ lands' = <<>> /\ i' = 0
    /\ UNCHANGED <<pipeline, input, csv_file, dest_filename, loc, jsonVars,
                   formatted_card_content, file, stdout, quirk>>

\* lines 92-108: one iteration of the loop over cards
CsvCard ==
    /\ pipeline = "csv" /\ pc = "loop" /\ i < Len(cards)
    /\ LET b == CsvBody(cards[i + 1]) IN
       IF b.err # None
       THEN /\ pc' = "error"
            /\ UNCHANGED <<i, loc, new_lines, lands>>
       ELSE /\ pc' = "loop"
            /\ i' = i + 1
            /\ loc' = b
            /\ IF b.name \in BasicLands
               THEN /\ lands' = Append(lands, CsvLandLine(b.name, b.num, b.label, b.set_code))
                    /\ UNCHANGED new_lines
               ELSE /\ new_lines' = Append(new_lines, CsvEntryLine(b.count, b.name, b.set_code, b.num))
                    /\ UNCHANGED lands
    /\ UNCHANGED <<pipeline, input, csv_file, dest_filename, csv_column_names, cards,
                   idx_count, idx_name, jsonVars, formatted_card_content, file, stdout, quirk>>

\* the content with the banner left out when there is no land
CsvContentBannerIfLands(main, landlines) ==
    Join(main, <<NL>>) \o (IF landlines # <<>> THEN Banner ELSE <<>>) \o Join(landlines, <<NL>>)

\* formatted_card_content of lines 109-120
CsvContent(main, landlines) == Join(main, <<NL>>) \o Banner \o Join(landlines, <<NL>>)

\* lines 109-125: join, append the banner and the lands, write or print
CsvFinish ==
    /\ pipeline = "csv" /\ pc = "loop" /\ i = Len(cards)
    /\ formatted_card_content' = CsvContent(new_lines, lands)
    /\ IF dest_filename # ""
       THEN file' = formatted_card_content' /\ UNCHANGED stdout
       ELSE stdout' = stdout \o formatted_card_content' \o <<NL>> /\ UNCHANGED file
    /\ pc' = "done"
    /\ UNCHANGED <<pipeline, input, csvVars, i, loc, lands, jsonVars, quirk>>

NextCsv == CsvStart \/ CsvCard \/ CsvFinish

----------------------------------------------------------------------------
(* Tabular inputs *)

sOpt == <<"O","p","t">>
sKH == <<"K", COMMA, "H">>
sKHC == <<"K", COMMA, "H", COMMA, "C">>

\* names of the rows: plain, basic land, one comma, two commas
CsvNames == {sOpt, sForest, sKH, sKHC}

\* rows: well-formed ones, one whose quoted name is never closed, one cut short
CsvRows ==
    {[name |-> n, defect |-> "none"] : n \in CsvNames}
        \cup {[name |-> sKH, defect |-> "unclosed"], [name |-> sOpt, defect |-> "short"]}

\* headers: the required columns in every order, all four or all but one, with or
\* without a further column after them
CsvHeaders ==
    {h \o t : h \in UNION {Orders(S) : S \in {T \in SUBSET RequiredColumns : Cardinality(T) >= 3}},
              t \in {<<>>, <<sLang>>}}

Destinations == {"", "deck.txt"}

InitIdle ==
    /\ pc = "start" /\ i = 0 /\ loc = NoLocals
    /\ lands = <<>> /\ formatted_card_content = <<>>
    /\ file = NoFile /\ stdout = <<>>

NoCsv ==
    /\ csv_file = <<>> /\ dest_filename = "" /\ csv_column_names = <<>> /\ cards = <<>>
    /\ idx_count = 0 /\ idx_name = 0 /\ new_lines = <<>>

NoJson ==
    /\ deck_list = None /\ include = {} /\ out = "" /\ sec = 0
    /\ formatted_cards = <<>> /\ land_printout = <<>>

NoQuirk == quirk = None

\* main(src_csv, dest_filename) on an exported table
InitCsvOn(headers, rows) ==
    /\ pipeline = "csv"
    /\ input \in [header : headers, rows : SeqsUpTo(rows, MaxCards)]
    /\ csv_file = ExportTable(input)
    /\ dest_filename \in Destinations
    /\ csv_column_names = <<>> /\ cards = <<>> /\ idx_count = 0 /\ idx_name = 0
    /\ new_lines = <<>>
    /\ InitIdle /\ NoJson /\ NoQuirk

InitCsv == InitCsvOn(CsvHeaders, CsvRows)

SpecCsv == InitCsv /\ [][NextCsv]_vars

----------------------------------------------------------------------------
(* Structured pipeline: scryfall_json_to_txt *)

\* the three characters of remove_these, by code point
ARTIFACT == <<"{U+00E2}", "{U+02DC}", "{U+2026}">>

fix_set_code(set_code) == Upper(set_code)

\* for c in remove_these: collector_number = collector_number.replace(c, "")
fix_collector_number(collector_number) ==
    RemoveChar(RemoveChar(RemoveChar(collector_number, ARTIFACT[1]), ARTIFACT[2]), ARTIFACT[3])

\* the test without its "all" alternative
include_cards_named_only(card_section) == card_section \in include

\* card_section in include or "all" in include
include_cards(card_section) == card_section \in include \/ "all" \in include

\* f"{name} ({collector_number}) - ({set_code})"
JsonLandLine(name, collector_number, set_code) ==
    name \o <<" ", "(">> \o collector_number \o <<")", " ", "-", " ", "(">> \o set_code \o <<")">>

\* the entry line with the printing appended whatever the flag says
JsonEntryLineAlwaysPrinting(count, name, printing_specified, set_code, collector_number) ==
    Digits(count) \o <<" ">> \o name \o <<" ", "[">> \o set_code \o <<"]", " ">> \o collector_number

\* "%d %s" % (count, name), then " [%s] %s" % (set_code, collector_number) if the
\* printing is specified
JsonEntryLine(count, name, printing_specified, set_code, collector_number) ==
    Digits(count) \o <<" ">> \o name
        \o (IF printing_specified
            THEN <<" ", "[">> \o set_code \o <<"]", " ">> \o collector_number
            ELSE <<>>)

\* the keys a record's lookups need, in the order the body reads them
DigestKeys == <<"count", "card_digest", "name", "set", "collector_number">>

\* the body of "for card in cards" for one record: its locals and the line it
\* appends, or the KeyError that leaves it
JsonBody(card) ==
    LET name == fix_name_formatting_quirks(card.name)
        set_code == fix_set_code(card.set)
        collector_number == fix_collector_number(card.collector_number)
        is_land == card.name \in BasicLands
        ok == [err |-> None, count |-> card.count, name |-> name, set_code |-> set_code,
               collector_number |-> collector_number, land |-> is_land, line |-> <<>>]
    IN  IF \E k \in 1..Len(DigestKeys) : card.missing = DigestKeys[k]
        THEN [ok EXCEPT !.err = "KeyError"]
        ELSE IF is_land
        THEN [ok EXCEPT !.line = JsonLandLine(name, collector_number, set_code)]
        ELSE IF card.missing = "printing_specified"
        THEN [ok EXCEPT !.err = "KeyError"]
        ELSE [ok EXCEPT !.line = JsonEntryLine(card.count, name, card.printing_specified,
                                                set_code, collector_number)]

\* lines 78-83: load the document, reach deck_list["entries"]
JsonStart ==
    /\ pipeline = "json" /\ pc = "start"
    /\ formatted_cards' = <<>> /\ lands' = <<>> /\ sec' = 0 /\ i' = 0
    /\ pc' = IF deck_list.has_entries THEN "loop" ELSE "error"
    /\ UNCHANGED <<pipeline, input, csvVars, loc, deck_list, include, out, land_printout,
                   formatted_card_content, file, stdout, quirk>>

\* lines 83-85: leave a section that is not included, or whose cards are all done
JsonSection ==
    /\ pipeline = "json" /\ pc = "loop" /\ sec < Len(deck_list.sections)
    /\ \/ ~include_cards(deck_list.sections[sec + 1])
       \/ i = Len(deck_list.cards[sec + 1])
    /\ sec' = sec + 1 /\ i' = 0
    /\ UNCHANGED <<pipeline, pc, input, csvVars, loc, lands, deck_list, include, out,
                   formatted_cards, land_printout, formatted_card_content, file, stdout,
                   quirk>>

\* lines 86-101: one record of an included section
JsonCard ==
    /\ pipeline = "json" /\ pc = "loop" /\ sec < Len(deck_list.sections)
    /\ include_cards(deck_list.sections[sec + 1])
    /\ i < Len(deck_list.cards[sec + 1])
    /\ LET b == JsonBody(deck_list.cards[sec + 1][i + 1]) IN
       IF b.err # None
       THEN /\ pc' = "error"
            /\ UNCHANGED <<i, loc, lands, formatted_cards>>
       ELSE /\ pc' = "loop"
            /\ i' = i + 1
            /\ loc' = b
            /\ IF b.land
               THEN lands' = Append(lands, b.line) /\ UNCHANGED formatted_cards
               ELSE formatted_cards' = Append(formatted_cards, b.line) /\ UNCHANGED lands
    /\ UNCHANGED <<pipeline, input, csvVars, deck_list, include, out, sec, land_printout,
                   formatted_card_content, file, stdout, quirk>>

\* land_printout of lines 104-116
JsonLandPrintout(landlines) ==
    IF landlines # <<>> THEN Banner \o Join(landlines, <<NL>>) ELSE <<>>

\* what lines 118-124 leave in the destination file and on standard output
JsonWrite(content, printout) ==
    [file |-> IF out # "" THEN content ELSE file,
     stdout |-> (IF out # "" THEN stdout ELSE stdout \o content \o <<NL>>)
                    \o printout \o <<NL>>]

\* lines 103-124: join, build the land printout, write or print, print the lands
JsonFinish ==
    /\ pipeline = "json" /\ pc = "loop" /\ sec = Len(deck_list.sections)
    /\ formatted_card_content' = Join(formatted_cards, <<NL>>)
    /\ land_printout' = JsonLandPrintout(lands)
    /\ file' = JsonWrite(formatted_card_content', land_printout').file
    /\ stdout' = JsonWrite(formatted_card_content', land_printout').stdout
    /\ pc' = "done"
    /\ UNCHANGED <<pipeline, input, csvVars, i, loc, lands, deck_list, include, out, sec,
                   formatted_cards, quirk>>

NextJson == JsonStart \/ JsonSection \/ JsonCard \/ JsonFinish

----------------------------------------------------------------------------
(* Structured inputs *)

sNeo == <<"n","e","o">>
sFoodToken == <<"F","o","o","d">> \o sSpaceToken

\* records: a spell with its printing and a starred number, a token without
\* printing, a basic land, a record without count, a land without the printing flag
JsonCards ==
    {[count |-> 1, name |-> sOpt, set |-> sNeo, collector_number |-> <<"7">> \o ARTIFACT,
      printing_specified |-> TRUE, missing |-> None],
     [count |-> 12, name |-> sFoodToken, set |-> sNeo, collector_number |-> <<"7">>,
      printing_specified |-> FALSE, missing |-> None],
     [count |-> 3, name |-> sForest, set |-> sNeo, collector_number |-> <<"7">> \o ARTIFACT,
      printing_specified |-> TRUE, missing |-> None],
     [count |-> 1, name |-> sOpt, set |-> sNeo, collector_number |-> <<"7">>,
      printing_specified |-> TRUE, missing |-> "count"],
     [count |-> 3, name |-> sForest, set |-> sNeo, collector_number |-> <<"7">>,
      printing_specified |-> TRUE, missing |-> "printing_specified"]}

\* the sections a document may hold, and the include lists tried
SectionUniverse == {"commanders", "outside"}
IncludeLists == SUBSET {"all", "commanders"}

RECURSIVE TotalLen(_)
TotalLen(lists) == IF lists = <<>> THEN 0 ELSE Len(Head(lists)) + TotalLen(Tail(lists))

\* documents: sections in every order, at most MaxCards records in all; or a
\* document without "entries"
JsonDocuments ==
    {[has_entries |-> TRUE, sections |-> s, cards |-> c] :
        s \in UNION {Orders(S) : S \in SUBSET SectionUniverse},
        c \in {c \in UNION {[1..n -> SeqsUpTo(JsonCards, MaxCards)] :
                                n \in 0..Cardinality(SectionUniverse)} : TotalLen(c) <= MaxCards}}
    \cup {[has_entries |-> FALSE, sections |-> <<>>, cards |-> <<>>]}

\* scryfall_json_to_txt(sourcefile, include, out) on a document
InitJson ==
    /\ pipeline = "json"
    /\ deck_list \in {d \in JsonDocuments : Len(d.sections) = Len(d.cards)}
    /\ input = deck_list
    /\ include \in IncludeLists
    /\ out \in Destinations
    /\ sec = 0 /\ formatted_cards = <<>> /\ land_printout = <<>>
    /\ InitIdle /\ NoCsv /\ NoQuirk

SpecJson == InitJson /\ [][NextJson]_vars

----------------------------------------------------------------------------
(* Both pipelines *)

Init == InitCsv \/ InitJson

Next == NextCsv \/ NextJson

Spec == Init /\ [][Next]_vars

----------------------------------------------------------------------------
(* Desync repair runs: the tabular pipeline on names over a small alphabet *)

\* the export's own column order (the columns the model carries)
NativeHeader == <<sCount, sName, sSetCode, sCollectorNumber, sLang>>

\* every name that is a letter followed by at most MaxNameLen characters: letters,
\* commas, quotes
DesyncNames == {<<"K">> \o t : t \in SeqsUpTo({"K", COMMA, QUOTE}, MaxNameLen)}

InitDesync == InitCsvOn({NativeHeader}, {[name |-> n, defect |-> "none"] : n \in DesyncNames})

SpecDesync == InitDesync /\ [][NextCsv]_vars

----------------------------------------------------------------------------
(* Normalizer runs: each pipeline's normalizer applied once, then again *)

\* the normalizer pipeline p applies to a name
Normalize(p, name) ==
    IF p = "csv" THEN fix_other_name_formatting_quirks(name)
    ELSE fix_name_formatting_quirks(name)

\* the pieces names are put together from
NamePieces == {<<"K">>, sSpaceToken, <<" ", "/", "/", " ">>, <<" ", "T", "o">>, <<"k", "e", "n">>}

\* names: a letter, then at most MaxParts pieces
QuirkNames == {<<"K">> \o Concat(ps) : ps \in SeqsUpTo(NamePieces, MaxParts)}

InitNorm ==
    /\ pipeline \in {"csv", "json"}
    /\ quirk \in [name : QuirkNames, once : {None}, twice : {None}]
    /\ input = None
    /\ pc = "name" /\ i = 0 /\ loc = NoLocals
    /\ lands = <<>> /\ formatted_card_content = <<>>
    /\ file = NoFile /\ stdout = <<>>
    /\ NoCsv /\ NoJson

\* name = fix_..._quirks(name)
QuirkOnce ==
    /\ pc = "name"
    /\ quirk' = [quirk EXCEPT !.once = Normalize(pipeline, quirk.name)]
    /\ pc' = "once"
    /\ UNCHANGED <<pipeline, input, csvVars, jsonVars, i, loc, lands,
                   formatted_card_content, file, stdout>>

\* the result normalized again
QuirkTwice ==
    /\ pc = "once"
    /\ quirk' = [quirk EXCEPT !.twice = Normalize(pipeline, quirk.once)]
    /\ pc' = "twice"
    /\ UNCHANGED <<pipeline, input, csvVars, jsonVars, i, loc, lands,
                   formatted_card_content, file, stdout>>

NextNorm == QuirkOnce \/ QuirkTwice

SpecNorm == InitNorm /\ [][NextNorm]_vars

----------------------------------------------------------------------------
(* Vocabulary of the properties, stated on the export rather than on the code *)

\* the five basic land names
LandNames == {<<"P","l","a","i","n","s">>, <<"I","s","l","a","n","d">>, <<"S","w","a","m","p">>,
              <<"M","o","u","n","t","a","i","n">>, <<"F","o","r","e","s","t">>}

Range(f) == {f[k] : k \in DOMAIN f}

Contains(s, sub) == \E p \in 1..(Len(s) + 1) : MatchAt(s, p, sub)
HasPrefix(s, pre) == MatchAt(s, 1, pre)
HasSuffix(s, suf) == Len(suf) <= Len(s) /\ MatchAt(s, Len(s) - Len(suf) + 1, suf)

Commas(name) == Cardinality({k \in 1..Len(name) : name[k] = COMMA})

\* a collector number without the artifact characters
Unstarred(number) == SelectSeq(number, LAMBDA c : c \notin Range(ARTIFACT))

\* whether the include list selects a section
Selected(section) == section \in include \/ "all" \in include

RECURSIVE RecordsFrom(_, _, _)
\* the records of the document's sections k.. in document order, those of the
\* sections in keep
RecordsFrom(doc, k, keep) ==
    IF k > Len(doc.sections) THEN <<>>
    ELSE (IF doc.sections[k] \in keep THEN doc.cards[k] ELSE <<>>) \o RecordsFrom(doc, k + 1, keep)

\* the sections of the document, and those the include list selects
Sections == {deck_list.sections[k] : k \in 1..Len(deck_list.sections)}
SelectedSections == {x \in Sections : Selected(x)}

\* every record of the export / the records the invocation is to render:
\* name, collector number and set code as the export gives them
AllRecords ==
    IF pipeline = "csv"
    THEN [k \in 1..Len(input.rows) |->
            [name |-> input.rows[k].name, number |-> <<"7">>, set |-> <<"n","e","o">>]]
    ELSE LET rs == RecordsFrom(deck_list, 1, Sections)
         IN  [k \in 1..Len(rs) |-> [name |-> rs[k].name,
                                    number |-> Unstarred(rs[k].collector_number),
                                    set |-> rs[k].set]]
RenderedRecords ==
    IF pipeline = "csv" THEN AllRecords
    ELSE LET rs == RecordsFrom(deck_list, 1, SelectedSections)
         IN  [k \in 1..Len(rs) |-> [name |-> rs[k].name,
                                    number |-> Unstarred(rs[k].collector_number),
                                    set |-> rs[k].set]]

\* the main entry block and everything the invocation wrote
MainBlock == IF pipeline = "csv" THEN new_lines ELSE formatted_cards
Emitted == (IF file = NoFile THEN <<>> ELSE file) \o stdout
DestinationGiven == IF pipeline = "csv" THEN dest_filename # "" ELSE out # ""

\* a land line of record r: name, "(number)", and later "(SET)" at its end
CarriesLand(line, r) ==
    /\ HasPrefix(line, r.name \o <<" ", "(">> \o r.number \o <<")">>)
    /\ HasSuffix(line, <<"(">> \o Upper(r.set) \o <<")">>)

Lands(records) == SelectSeq(records, LAMBDA r : r.name \in LandNames)
NonLands(records) == SelectSeq(records, LAMBDA r : r.name \notin LandNames)

----------------------------------------------------------------------------
(* C1 *)

\* C1: desync repair. For every record of the table whose name holds k >= 1
\* commas, normalize_name returns the original name and the offset k, and the
\* set code and collector number rendered for it are the cells at header index
\* + k; for a name without commas the offset is 0 and the name is the cell.
C1_DesyncRepair ==
    (pipeline = "csv" /\ pc \in {"loop", "done", "error"} /\ idx_name >= 0) =>
        /\ \A k \in 1..Len(cards) :
             LET r == normalize_name(idx_name, cards[k], Len(csv_column_names))
                 n == input.rows[k].name
             IN  /\ r.err = None
                 /\ r.name_offset = Commas(n)
                 /\ r.name = IF Commas(n) >= 1 THEN n ELSE At(cards[k], idx_name)
        /\ (pc # "error" /\ i >= 1) =>
             /\ loc.set_code = At(cards[i], IndexOf(csv_column_names, sSetCode)
                                               + Commas(input.rows[i].name))
             /\ loc.num = At(cards[i], IndexOf(csv_column_names, sCollectorNumber)
                                          + Commas(input.rows[i].name))

----------------------------------------------------------------------------
(* C2 *)

\* C2 as stated: a finished invocation has, for every record of the export whose
\* name is a basic land, a land line carrying its collector number and upper-cased
\* set code, and none of them a main line, whatever the include list is.
C2_EveryLandRouted ==
    pc = "done" =>
        /\ \A k \in 1..Len(Lands(AllRecords)) :
               \E l \in 1..Len(lands) : CarriesLand(lands[l], Lands(AllRecords)[k])
        /\ Len(lands) >= Len(Lands(AllRecords))
        /\ Len(MainBlock) <= Len(NonLands(AllRecords))

\* C2 amended: a finished invocation has, for every record it is to render (every
\* row of a table; in a document, the records of the selected sections) whose name
\* is a basic land, a land line carrying its collector number (without the
\* artifact characters) and upper-cased set code, and none of them a main line.
C2_RenderedLandRouted ==
    pc = "done" =>
        /\ \A k \in 1..Len(Lands(RenderedRecords)) :
               \E l \in 1..Len(lands) : CarriesLand(lands[l], Lands(RenderedRecords)[k])
        /\ Len(lands) >= Len(Lands(RenderedRecords))
        /\ Len(MainBlock) <= Len(NonLands(RenderedRecords))
        /\ \A m \in 1..Len(MainBlock) : \A n \in LandNames : ~Contains(MainBlock[m], n)

\* a finished document whose selected sections hold a basic land and another
\* card: one land line, one main line
C2_Witness ==
    /\ pc = "done" /\ pipeline = "json"
    /\ Len(Lands(RenderedRecords)) >= 1
    /\ Len(NonLands(RenderedRecords)) >= 1
    /\ Len(lands) >= 1 /\ Len(MainBlock) >= 1

----------------------------------------------------------------------------
(* C3 *)

\* whether text t holds the main entries, and the banner with the land entries
HoldsMain(t) == HasPrefix(t, Join(MainBlock, <<NL>>))
HoldsLands(t) == Contains(t, Banner \o Join(lands, <<NL>>))
\* whether t holds no main entry, no land entry and no banner
HoldsNothing(t) ==
    /\ BOX \notin Range(t)
    /\ \A l \in Range(MainBlock) \cup Range(lands) : ~Contains(t, l)

\* C3: output routing. A finished invocation given a destination wrote the main
\* entries and, when there are lands, the banner and the lands to the file, and
\* none of them to standard output; one given none wrote them to standard output
\* and no file.
C3_OutputRouting ==
    pc = "done" =>
        IF DestinationGiven
        THEN /\ file # NoFile /\ HoldsMain(file)
             /\ lands # <<>> => HoldsLands(file)
             /\ HoldsNothing(stdout)
        ELSE /\ file = NoFile /\ HoldsMain(stdout)
             /\ lands # <<>> => HoldsLands(stdout)

----------------------------------------------------------------------------
(* C4 *)

\* C4: section filtering. A finished structured invocation holds exactly the lines
\* of the records of the selected sections (selected: named in the include list,
\* or the list holds "all"), in document order of the sections and record order
\* within each: the non-lands in the main block, the lands in the land block.
C4_SectionFiltering ==
    (pipeline = "json" /\ pc = "done") =>
        LET rs == RecordsFrom(deck_list, 1, SelectedSections)
            main == SelectSeq(rs, LAMBDA r : r.name \notin LandNames)
            land == SelectSeq(rs, LAMBDA r : r.name \in LandNames)
        IN  /\ formatted_cards = [k \in 1..Len(main) |-> JsonBody(main[k]).line]
            /\ lands = [k \in 1..Len(land) |-> JsonBody(land[k]).line]

\* two sections holding a different record each, only "commanders" selected: the
\* one line is the commander's; and the same document with "all": both lines
C4_Witness ==
    /\ pipeline = "json" /\ pc = "done"
    /\ deck_list.sections = <<"outside", "commanders">>
    /\ Len(deck_list.cards[1]) = 1 /\ Len(deck_list.cards[2]) = 1
    /\ deck_list.cards[1] # deck_list.cards[2]
    /\ \/ include = {"commanders"} /\ Len(formatted_cards) + Len(lands) = 1
       \/ include = {"all"} /\ Len(formatted_cards) + Len(lands) = 2

----------------------------------------------------------------------------
(* C5 *)

\* C5: printing flag. In a finished structured invocation the k-th main line is,
\* for the k-th selected non-land record, "{count} {name}" when printing_specified
\* is false and "{count} {name} [{SET}] {number}" when it is true ({name}
\* normalized, {SET} upper-cased, {number} without the artifact characters).
C5_PrintingFlag ==
    (pipeline = "json" /\ pc = "done") =>
        LET rs == NonLands(RecordsFrom(deck_list, 1, SelectedSections))
        IN  /\ Len(formatted_cards) = Len(rs)
            /\ \A k \in 1..Len(rs) :
                 formatted_cards[k] =
                    IF rs[k].printing_specified
                    THEN Digits(rs[k].count) \o <<" ">> \o fix_name_formatting_quirks(rs[k].name)
                            \o <<" ", "[">> \o Upper(rs[k].set) \o <<"]", " ">>
                            \o Unstarred(rs[k].collector_number)
                    ELSE Digits(rs[k].count) \o <<" ">> \o fix_name_formatting_quirks(rs[k].name)

\* "1 Opt [NEO] 7" from a record with the flag set and a starred number, next to
\* "12 Food" from a token record without it
C5_Witness ==
    /\ pipeline = "json" /\ pc = "done"
    /\ formatted_cards = << <<"1", " ", "O", "p", "t", " ", "[", "N", "E", "O", "]", " ", "7">>,
                            <<"1", "2", " ", "F", "o", "o", "d">> >>

----------------------------------------------------------------------------
(* C6 *)

\* C6: token suffix. For a name without a face separator, the normalizer of either
\* pipeline removes a trailing " Token" and nothing else, and returns a name that
\* does not end in " Token" unchanged.
C6_TokenSuffix ==
    (pc = "once" /\ ~\E p \in 1..Len(quirk.name) : TwoFacedAt(quirk.name, p)) =>
        IF HasSuffix(quirk.name, sSpaceToken)
        THEN quirk.once = SubSeq(quirk.name, 1, Len(quirk.name) - 6)
        ELSE quirk.once = quirk.name

----------------------------------------------------------------------------
(* C7 *)

\* whether the banner was written, and whether it was written followed by the lands
BannerEmitted == BOX \in Range(Emitted)
BannerThenLands == Contains(Emitted, Banner \o Join(lands, <<NL>>))

\* C7 as stated: with a land entry both pipelines emit the banner followed by the
\* lands; with none the structured pipeline still emits the banner and the tabular
\* pipeline omits it.
C7_BannerPolicy ==
    pc = "done" =>
        IF lands # <<>> THEN BannerThenLands
        ELSE IF pipeline = "json" THEN BannerEmitted ELSE ~BannerEmitted

\* C7 amended: with a land entry both pipelines emit the banner followed by the
\* lands joined by newlines; with none the tabular pipeline still emits the banner
\* as an empty trailing block and the structured pipeline omits it.
C7_BannerPolicySwapped ==
    pc = "done" =>
        IF lands # <<>> THEN BannerThenLands
        ELSE IF pipeline = "csv" THEN BannerEmitted /\ HasSuffix(formatted_card_content, Banner)
        ELSE ~BannerEmitted

\* a table without lands, finished with main entries and the banner
C7_Witness ==
    /\ pc = "done" /\ pipeline = "csv"
    /\ lands = <<>> /\ new_lines # <<>> /\ BannerEmitted

----------------------------------------------------------------------------
(* C8 *)

\* a required column or key is absent, or a record is malformed
SchemaError ==
    IF pipeline = "csv"
    THEN \E c \in RequiredColumns : c \notin Range(input.header)
    ELSE \/ ~deck_list.has_entries
         \/ \E r \in Range(RecordsFrom(deck_list, 1, Sections)) : r.missing # None
MalformedRecord ==
    pipeline = "csv" /\ \E r \in Range(input.rows) : r.defect # "none"

\* C8: fatal parse errors. An invocation on an export with a schema error or a
\* malformed record does not complete normally, and an invocation that ended in
\* an error has written nothing to the destination or to standard output.
C8_FatalParseErrors ==
    /\ pc = "done" => ~(SchemaError \/ MalformedRecord)
    /\ pc = "error" => file = NoFile /\ stdout = <<>>

----------------------------------------------------------------------------
(* C9 *)

\* C9: idempotence. Normalizing a normalized name returns it unchanged, in both
\* pipelines.
C9_Idempotent == pc = "twice" => quirk.twice = quirk.once

----------------------------------------------------------------------------
(* C10 *)

\* C10: column order. For a table whose header holds the four required columns in
\* any order and whose rows are well-formed, the invocation does not fail and each
\* record is rendered with its own count, set code and collector number.
C10_ColumnOrder ==
    (pipeline = "csv" /\ RequiredColumns \subseteq Range(input.header)
        /\ \A r \in Range(input.rows) : r.defect = "none") =>
        /\ pc # "error"
        /\ (pc \in {"loop", "done"} /\ i >= 1) =>
             /\ loc.count = <<"2">>
             /\ loc.set_code = <<"n", "e", "o">>
             /\ loc.num = <<"7">>

============================================================================
